---- MODULE Spec2Model ----
(***************************************************************************)
(* Model of the message-history reduction and routing core of the GAIA     *)
(* multi-agent question-answering system.                                  *)
(*                                                                         *)
(*   SpecReduce   the history reducer (create_clean_agent_messages_hook)   *)
(*                applied to conversation logs, src/agents/__init__.py     *)
(*   SpecExtract  the orchestrator's post-model hook                       *)
(*                (extract_final_answer_hook), src/agents/orchestrator.py  *)
(*   SpecAgents   the class-based sub-agent nodes (ResearcherAgent,        *)
(*                VisualAgent, CodeAgent), src/agents/*_agent.py           *)
(*   SpecDriver   the workflow driver, its router and sub-agent bubbles    *)
(*   SpecGraph    the compiled graph of src/agents/graph.py                *)
(*   SpecApp      BasicAgent.__call__, src/app.py                          *)
(*   SpecPreModel the reducer run as a pre_model_hook                      *)
(*   SpecVisual   the visual agent's hook, src/agents/visual.py            *)
(*   SpecRegistered  the model calls of the five registered agents         *)
(*   SpecDelegated   one delegated run of a sub-agent                      *)
(*   SpecPlanner  GlobalPlanner, src/agents/planner.py                     *)
(*                                                                         *)
(* Text is modelled as a sequence of tokens; a token is an atomic piece of *)
(* text (a marker, one whitespace character, a quote, a word).  Python's   *)
(* None is the empty sequence <<>> and a present value v is <<v>>.         *)
(* Sequences are 1-based: Python index i is position i + 1 here.           *)
(***************************************************************************)
EXTENDS Integers, Sequences, FiniteSets, TLC

VARIABLES
    messages,       \* state["messages"]: the conversation log
    agent_name,     \* the agent the reducer hook was created for
    cleaned,        \* what the reducer returned last: <<>> or <<[messages, input]>>
    final_answer,   \* state["final_answer"]: <<>> (None) or <<text>>
    update,         \* what the final-answer hook returned last: <<>> ({}) or <<text>>
    calls,          \* number of hook calls made on the current log
    agent_state,    \* the AgentState dict handed to a class-based agent node
    returned,       \* what the agent node returned: <<>> or <<new_state>>
    raised,         \* the exception that left the agent node ("" when none)
    outcome,        \* what the node's collaborator (model, executor, prompt file) did
    graph_node,     \* the node of the compiled graph that runs next ("" outside the graph)
    driver,         \* the workflow driver's state
    delegation,     \* the Delegation Record in use: <<>> or <<[target_agent, arguments, call_id]>>
    bubble,         \* the messages of the running sub-agent bubble
    remaining_steps,\* orchestrator turns left
    op              \* the operation that acted last

reducerVars == <<agent_name, cleaned>>
extractVars == <<final_answer, update>>
nodeVars == <<agent_state, returned, raised, outcome, graph_node>>
driverVars == <<driver, delegation, bubble, remaining_steps>>

vars == <<messages, calls, op, reducerVars, extractVars, nodeVars, driverVars>>

(***************************************************************************)
(* Bounds of the model.                                                    *)
(***************************************************************************)
MaxLog == 3          \* longest conversation log explored
MaxCalls == 2        \* hook calls explored on one log
MaxContentLen == 3   \* longest text (in tokens) of the last message given to the extractor
MaxSteps == 3        \* orchestrator turns of one run of the workflow driver
MaxBubble == 2       \* messages a sub-agent adds to its bubble

None == <<>>
Some(v) == <<v>>
NoName == "<None>"   \* BaseMessage.name is None
NoId == 0            \* no tool_call_id; the ids of tool calls are positive

(***************************************************************************)
(* Text.                                                                   *)
(***************************************************************************)
Whitespace == {" ", "\n"}
Quote == "\""

RECURSIVE LStrip(_, _)
\* str.lstrip(chars): drop the leading tokens that are in chars
LStrip(s, chars) ==
    IF s # <<>> /\ Head(s) \in chars THEN LStrip(Tail(s), chars) ELSE s

RECURSIVE RStrip(_, _)
\* str.rstrip(chars): drop the trailing tokens that are in chars
RStrip(s, chars) ==
    IF s # <<>> /\ s[Len(s)] \in chars THEN RStrip(SubSeq(s, 1, Len(s) - 1), chars) ELSE s

\* str.strip() / str.strip(chars)
Strip(s, chars) == RStrip(LStrip(s, chars), chars)

\* position of the first token of s that is in set, 0 when there is none
\* (re.search returns the leftmost match)
FirstIn(s, set) ==
    IF \E i \in 1..Len(s) : s[i] \in set
    THEN CHOOSE i \in 1..Len(s) : s[i] \in set /\ \A j \in 1..(i - 1) : s[j] \notin set
    ELSE 0

\* text after position i
After(s, i) == SubSeq(s, i + 1, Len(s))

(***************************************************************************)
(* Messages (langchain_core.messages).                                     *)
(***************************************************************************)
Msg(role, name, content, tool_calls, tool_call_id) ==
    [role |-> role, name |-> name, content |-> content,
     tool_calls |-> tool_calls, tool_call_id |-> tool_call_id]

\* an entry of AIMessage.tool_calls: {id, name, args}
ToolCall(id, name, args) == [id |-> id, name |-> name, args |-> args]

SystemMessage(name, content) == Msg("system", name, content, <<>>, NoId)
HumanMessage(name, content) == Msg("human", name, content, <<>>, NoId)
AIMessage(name, content, tool_calls) == Msg("ai", name, content, tool_calls, NoId)
ToolMessage(name, content, id) == Msg("tool", name, content, <<>>, id)

AgentNames == {"visual", "audio"}


(***************************************************************************)
(* History reducer: create_clean_agent_messages_hook(agent_name).          *)
(* An element of the returned list is [src, msg]: src is the position in   *)
(* the log of the very message object (Python's `is`), 0 for a message     *)
(* object the hook built itself.                                           *)
(***************************************************************************)
ActionInputMarkers == {"Action Input:", "action input:"}   \* re.IGNORECASE

\* re.search(r"Action Input:\s*(.*)", content, re.IGNORECASE | re.DOTALL):
\* None when nothing matches, else group(1), the text after the leftmost
\* marker and the whitespace that follows it
ActionInputMatch(content) ==
    LET k == FirstIn(content, ActionInputMarkers) IN
    IF k = 0 THEN None ELSE Some(LStrip(After(content, k), Whitespace))

\* match.group(1).strip().strip('"')
DelegatedContent(group1) == Strip(Strip(group1, Whitespace), {Quote})

Elem(src, msg) == [src |-> src, msg |-> msg]

\* the mutant of FirstSystemIndex: the last System message instead of the first
LastSystemIndex(msgs) ==
    IF \E i \in 1..Len(msgs) : msgs[i].role = "system"
    THEN CHOOSE i \in 1..Len(msgs) :
            msgs[i].role = "system" /\ \A j \in (i + 1)..Len(msgs) : msgs[j].role # "system"
    ELSE 0

\* step 1: position of the first SystemMessage, 0 when there is none
FirstSystemIndex(msgs) ==
    IF \E i \in 1..Len(msgs) : msgs[i].role = "system"
    THEN CHOOSE i \in 1..Len(msgs) :
            msgs[i].role = "system" /\ \A j \in 1..(i - 1) : msgs[j].role # "system"
    ELSE 0

\* the mutant of NoEffectiveInput: delegated_content starts as None and is
\* printed into the input
NoEffectiveInputUnset == [effective |-> None, delegated_content |-> <<"None">>, start |-> 1]

\* the locals of step 2 before the loop
NoEffectiveInput == [effective |-> None, delegated_content |-> <<>>, start |-> 1]

RECURSIVE ScanOldestHuman(_, _, _)
\* the mutant of ScanEffectiveInput: the fallback lacks `effective_human_message
\* is None`, so every older Human message replaces the one found before
ScanOldestHuman(msgs, i, acc) ==
    IF i = 0 THEN acc
    ELSE LET msg == msgs[i]
             match == ActionInputMatch(msg.content) IN
         IF msg.role = "ai"
         THEN IF match # None
              THEN LET dc == DelegatedContent(match[1]) IN
                   [effective |-> Some(Elem(0, HumanMessage(NoName, dc))),
                    delegated_content |-> dc, start |-> i + 1]
              ELSE ScanOldestHuman(msgs, i - 1, acc)
         ELSE IF msg.role = "human"
              THEN ScanOldestHuman(msgs, i - 1,
                       [effective |-> Some(Elem(i, msg)),
                        delegated_content |-> msg.content, start |-> i + 1])
              ELSE ScanOldestHuman(msgs, i - 1, acc)

RECURSIVE ScanHumanFirst(_, _, _)
\* the mutant of ScanEffectiveInput: the scan stops at the first Human message
\* it meets, so a delegation older than that message is not looked for
ScanHumanFirst(msgs, i, acc) ==
    IF i = 0 THEN acc
    ELSE LET msg == msgs[i]
             match == ActionInputMatch(msg.content) IN
         IF msg.role = "ai"
         THEN IF match # None
              THEN LET dc == DelegatedContent(match[1]) IN
                   [effective |-> Some(Elem(0, HumanMessage(NoName, dc))),
                    delegated_content |-> dc, start |-> i + 1]
              ELSE ScanHumanFirst(msgs, i - 1, acc)
         ELSE IF msg.role = "human"
              THEN [effective |-> Some(Elem(i, msg)),
                    delegated_content |-> msg.content, start |-> i + 1]
              ELSE ScanHumanFirst(msgs, i - 1, acc)

RECURSIVE ScanEffectiveInput(_, _, _)
\* step 2: `for i in reversed(range(len(messages)))`, from position i down,
\* with the locals acc
ScanEffectiveInput(msgs, i, acc) ==
    IF i = 0 THEN acc
    ELSE LET msg == msgs[i]
             match == ActionInputMatch(msg.content) IN
         IF msg.role = "ai"
         THEN IF match # None
              THEN \* the delegation: a new HumanMessage, then break
                   LET dc == DelegatedContent(match[1]) IN
                   [effective |-> Some(Elem(0, HumanMessage(NoName, dc))),
                    delegated_content |-> dc, start |-> i + 1]
              ELSE ScanEffectiveInput(msgs, i - 1, acc)
         ELSE IF msg.role = "human" /\ acc.effective = None
              THEN \* the fallback: the HumanMessage itself; the scan goes on
                   ScanEffectiveInput(msgs, i - 1,
                       [effective |-> Some(Elem(i, msg)),
                        delegated_content |-> msg.content, start |-> i + 1])
              ELSE ScanEffectiveInput(msgs, i - 1, acc)

\* the mutant of KeepInScratchpad: an AIMessage is kept whatever its name
KeepAnyAI(msg, agent) ==
    \/ msg.name = agent
    \/ msg.role = "ai"

\* step 3, the two `append` conditions of the scratchpad loop
KeepInScratchpad(msg, agent) ==
    \/ msg.name = agent
    \/ msg.role = "ai" /\ msg.name = NoName

RECURSIVE ScratchpadShort(_, _, _, _, _)
\* the mutant of Scratchpad: the loop stops one message early,
\* `range(start, len(messages) - 1)`
ScratchpadShort(msgs, i, sys, effective, agent) ==
    IF i >= Len(msgs) THEN <<>>
    ELSE LET rest == ScratchpadShort(msgs, i + 1, sys, effective, agent) IN
         IF i = sys THEN rest
         ELSE IF effective # None /\ effective[1].src = i THEN rest
         ELSE IF KeepInScratchpad(msgs[i], agent) THEN <<Elem(i, msgs[i])>> \o rest
         ELSE rest

RECURSIVE Scratchpad(_, _, _, _, _)
\* step 3: `for i in range(start_index_for_agent_scratchpad, len(messages))`
Scratchpad(msgs, i, sys, effective, agent) ==
    IF i > Len(msgs) THEN <<>>
    ELSE LET rest == Scratchpad(msgs, i + 1, sys, effective, agent) IN
         IF i = sys THEN rest                                   \* `is system_msg`
         ELSE IF effective # None /\ effective[1].src = i THEN rest   \* `is effective_human_message`
         ELSE IF KeepInScratchpad(msgs[i], agent) THEN <<Elem(i, msgs[i])>> \o rest
         ELSE rest

\* _clean_agent_messages_hook_instance(state) of the hook made for `agent`
clean_agent_messages_hook_instance(msgs, agent) ==
    LET sys == FirstSystemIndex(msgs)
        scan == ScanEffectiveInput(msgs, Len(msgs), NoEffectiveInput)
        start == IF scan.effective # None THEN scan.start ELSE 1
        head == (IF sys # 0 THEN <<Elem(sys, msgs[sys])>> ELSE <<>>)
                \o (IF scan.effective # None THEN <<scan.effective[1]>> ELSE <<>>)
    IN [messages |-> head \o Scratchpad(msgs, start, sys, scan.effective, agent),
        input |-> scan.delegated_content]


(***************************************************************************)
(* The reducer applied to conversation logs.                               *)
(***************************************************************************)
\* the messages a log is drawn from
LogMessages ==
    { SystemMessage(NoName, <<"S">>),
      SystemMessage("audio", <<"S2">>),
      HumanMessage(NoName, <<"q">>),
      HumanMessage("audio", <<"r">>),
      AIMessage(NoName, <<"x">>, <<>>),
      AIMessage(NoName, <<"Thought", "\n", "Action Input:", " ", Quote, "y", Quote>>, <<>>),
      AIMessage("audio", <<"action input:", "z">>, <<>>),
      AIMessage("visual", <<"x">>, <<ToolCall(1, <<"read_image_and_encode">>, <<"f">>)>>),
      AIMessage("audio", <<"x">>, <<>>),
      ToolMessage("visual", <<"o">>, 1),
      ToolMessage("audio", <<"o">>, 2) }

Logs(n) == UNION { [1..k -> LogMessages] : k \in 0..n }

\* the parts of the state the reducer does not touch
IdleExtract == final_answer = None /\ update = None
IdleAgents == agent_state = <<>> /\ returned = None /\ raised = "" /\ outcome = "" /\ graph_node = ""
IdleDriver == driver = "" /\ delegation = None /\ bubble = <<>> /\ remaining_steps = 0

InitReduce ==
    /\ messages \in Logs(MaxLog)
    /\ agent_name \in AgentNames
    /\ cleaned = None
    /\ calls = 0
    /\ op = "init"
    /\ IdleExtract
    /\ IdleAgents
    /\ IdleDriver

\* the mutant of ReduceCall: the hook prunes the log it was given in place
ReduceCallInPlace ==
    /\ calls < MaxCalls
    /\ LET r == clean_agent_messages_hook_instance(messages, agent_name) IN
         /\ cleaned' = Some(r)
         /\ messages' = [p \in 1..Len(r.messages) |-> r.messages[p].msg]
    /\ calls' = calls + 1
    /\ op' = "reduce"
    /\ UNCHANGED <<agent_name, extractVars, nodeVars, driverVars>>

\* one call of the hook made for agent_name on state["messages"]
ReduceCall ==
    /\ calls < MaxCalls
    /\ cleaned' = Some(clean_agent_messages_hook_instance(messages, agent_name))
    /\ calls' = calls + 1
    /\ op' = "reduce"
    /\ UNCHANGED <<messages, agent_name, extractVars, nodeVars, driverVars>>

NextReduce == ReduceCall

SpecReduce == InitReduce /\ [][NextReduce]_vars

\* what the last call returned
View == cleaned[1].messages
Input == cleaned[1].input

HasMarker(msg) == msg.role = "ai" /\ \E t \in 1..Len(msg.content) : msg.content[t] \in ActionInputMarkers
Foreign(msg) == msg.name # NoName /\ msg.name # agent_name

\* C1 as stated: no message of the view carries another agent's name, except
\* the leading System message
C1_AsStated ==
    cleaned # None =>
        \A p \in 1..Len(View) :
            Foreign(View[p].msg) => (p = 1 /\ View[p].msg.role = "system")

\* C1, amended: no message of the view carries another agent's name, except
\* the leading System message and, when no AI message of the log carries an
\* "Action Input:" marker, the log's most recent Human message, which the view
\* keeps as the effective input whatever its name
C1_HistoryScoping ==
    cleaned # None =>
        \A p \in 1..Len(View) :
            Foreign(View[p].msg) =>
                \/ p = 1 /\ View[p].msg.role = "system"
                \/ /\ View[p].msg.role = "human"
                   /\ View[p].src # 0
                   /\ \A j \in 1..Len(messages) : ~HasMarker(messages[j])
                   /\ \A j \in (View[p].src + 1)..Len(messages) : messages[j].role # "human"

\* C1 witness: a tool result named for another agent follows the user's
\* query, a message of this agent follows it, and the view has the second
\* without the first
C1_Witness ==
    /\ cleaned # None
    /\ \E h, i, j \in 1..Len(messages) :
        /\ h < i /\ i < j
        /\ messages[h].role = "human"
        /\ messages[i].role = "tool" /\ Foreign(messages[i])
        /\ messages[j].name = agent_name
        /\ \E p \in 1..Len(View) : View[p].src = j
        /\ \A p \in 1..Len(View) : View[p].src # i

\* position of the effective-input message in the view
InputPos == IF \E j \in 1..Len(messages) : messages[j].role = "system" THEN 2 ELSE 1

\* C2: when the log has a marker-bearing AI message and an earlier Human
\* message, the returned input and the synthetic Human message of the view
\* are the payload of the most recent marker-bearing AI message
C2_MarkerPrecedence ==
    cleaned # None =>
        \A k \in 1..Len(messages) :
            ( /\ HasMarker(messages[k])
              /\ \A j \in (k + 1)..Len(messages) : ~HasMarker(messages[j])
              /\ \E h \in 1..(k - 1) : messages[h].role = "human" )
            => LET payload == DelegatedContent(ActionInputMatch(messages[k].content)[1]) IN
               /\ Input = payload
               /\ Len(View) >= InputPos
               /\ View[InputPos] = Elem(0, HumanMessage(NoName, payload))

\* C2 witness: a Human message lies after the delegation as well as before it,
\* and the input is still the delegation's payload "y"
C2_Witness ==
    /\ cleaned # None
    /\ Len(messages) = 3
    /\ messages[1].role = "human"
    /\ HasMarker(messages[2])
    /\ messages[3].role = "human"
    /\ Input = <<"y">>

\* C3: the first System message of the log is the first element of the view;
\* a log without System message gives a view without System message
C3_SystemFirst ==
    cleaned # None =>
        /\ \A i \in 1..Len(messages) :
            (messages[i].role = "system" /\ \A j \in 1..(i - 1) : messages[j].role # "system")
            => /\ Len(View) >= 1
               /\ View[1] = Elem(i, messages[i])
               /\ \A p \in 2..Len(View) : View[p].src # i
        /\ (\A i \in 1..Len(messages) : messages[i].role # "system")
            => \A p \in 1..Len(View) : View[p].msg.role # "system"

\* C3 witness: the first System message comes after the user's query in the
\* log, a second System message follows, and the view starts with the first
C3_Witness ==
    /\ cleaned # None
    /\ Len(messages) = 3
    /\ messages[1].role = "human"
    /\ messages[2].role = "system"
    /\ messages[3].role = "system"
    /\ messages[2] # messages[3]
    /\ View[1].src = 2

FinalAnswerMarkers == {"Final Answer:", "final answer:"}   \* re.IGNORECASE

\* position of the last token of s that is in set, 0 when there is none
LastIn(s, set) ==
    IF \E i \in 1..Len(s) : s[i] \in set
    THEN CHOOSE i \in 1..Len(s) : s[i] \in set /\ \A j \in (i + 1)..Len(s) : s[j] \notin set
    ELSE 0

\* the mutant of extract_final_answer_hook: the text after the last marker
\* is taken, r".*final answer:(.*)"
extract_final_answer_last_marker(msgs) ==
    IF msgs = <<>> THEN None
    ELSE LET last_message == msgs[Len(msgs)]
             content == last_message.content
             k == LastIn(content, FinalAnswerMarkers) IN
         IF last_message.role = "ai" /\ content # <<>> /\ k # 0
         THEN Some(Strip(After(content, k), Whitespace))
         ELSE None

\* the mutant of extract_final_answer_hook: the marker is matched in one
\* letter case only
extract_final_answer_case_sensitive(msgs) ==
    IF msgs = <<>> THEN None
    ELSE LET last_message == msgs[Len(msgs)]
             content == last_message.content
             k == FirstIn(content, {"Final Answer:"}) IN
         IF last_message.role = "ai" /\ content # <<>> /\ k # 0
         THEN Some(Strip(After(content, k), Whitespace))
         ELSE None

\* extract_final_answer_hook(state): the returned update, <<>> for {} and
\* <<text>> for {"final_answer": text}
extract_final_answer_hook(msgs) ==
    IF msgs = <<>> THEN None                       \* `if not messages`
    ELSE LET last_message == msgs[Len(msgs)]
             content == last_message.content
             \* re.search(r"final answer:(.*)", content, re.IGNORECASE | re.DOTALL)
             k == FirstIn(content, FinalAnswerMarkers) IN
         IF last_message.role = "ai" /\ content # <<>> /\ k # 0
         THEN Some(Strip(After(content, k), Whitespace))   \* match.group(1).strip()
         ELSE None

\* the texts of at most n tokens
Tokens == {"Final Answer:", "final answer:", " ", "\n", "x"}
Texts(n) == UNION { [1..k -> Tokens] : k \in 0..n }

\* the last message of the log the extractor is given at first
LastMessages ==
    { AIMessage(NoName, t, <<>>) : t \in Texts(MaxContentLen) }
    \cup { HumanMessage(NoName, <<"Final Answer:", "x">>),
           ToolMessage("visual", <<"Final Answer:", "x">>, 1) }

\* what the orchestrator's model may say in a later turn
TurnContents ==
    { <<"x">>, <<"Final Answer:", " ", "x">>, <<"final answer:", "x", "\n">>, <<"Final Answer:", " ">> }

IdleReduce == agent_name = "supervisor" /\ cleaned = None

InitExtract ==
    /\ messages \in {<<>>} \cup
          { prefix \o <<m>> : prefix \in {<<>>, <<HumanMessage(NoName, <<"q">>)>>},
                              m \in LastMessages }
    /\ final_answer = None               \* "final_answer": None in the initial state
    /\ update = None
    /\ calls = 0
    /\ op = "init"
    /\ IdleReduce
    /\ IdleAgents
    /\ IdleDriver

\* the mutant of ExtractCall: the hook takes the message it read off the log
ExtractCallConsuming ==
    /\ calls < MaxCalls
    /\ update' = extract_final_answer_hook(messages)
    /\ final_answer' = IF update' # None THEN update' ELSE final_answer
    /\ messages' = IF update' # None THEN SubSeq(messages, 1, Len(messages) - 1) ELSE messages
    /\ calls' = calls + 1
    /\ op' = "extract"
    /\ UNCHANGED <<reducerVars, nodeVars, driverVars>>

\* the mutant of ExtractCall: the state's final_answer is set to whatever the
\* hook found, None when it found nothing
ExtractCallOverwriting ==
    /\ calls < MaxCalls
    /\ update' = extract_final_answer_hook(messages)
    /\ final_answer' = update'
    /\ calls' = calls + 1
    /\ op' = "extract"
    /\ UNCHANGED <<messages, reducerVars, nodeVars, driverVars>>

\* one call of the post-model hook; the returned dict is merged into the
\* state: {} changes nothing, {"final_answer": t} sets final_answer
ExtractCall ==
    /\ calls < MaxCalls
    /\ update' = extract_final_answer_hook(messages)
    /\ final_answer' = IF update' # None THEN update' ELSE final_answer
    /\ calls' = calls + 1
    /\ op' = "extract"
    /\ UNCHANGED <<messages, reducerVars, nodeVars, driverVars>>

\* a further turn of the orchestrator's model appends its AI message
OrchestratorTurn ==
    /\ Len(messages) < MaxLog
    /\ \E t \in TurnContents : messages' = Append(messages, AIMessage(NoName, t, <<>>))
    /\ update' = None
    /\ calls' = 0
    /\ op' = "turn"
    /\ UNCHANGED <<reducerVars, final_answer, nodeVars, driverVars>>

NextExtract == ExtractCall \/ OrchestratorTurn

SpecExtract == InitExtract /\ [][NextExtract]_vars

\* t is s without its leading and trailing whitespace
IsTrimOf(t, s) ==
    \E a \in 1..(Len(s) + 1) : \E b \in 0..Len(s) :
        /\ t = SubSeq(s, a, b)
        /\ \A i \in 1..Len(s) : (i < a \/ i > b) => s[i] \in Whitespace
        /\ t # <<>> => (t[1] \notin Whitespace /\ t[Len(t)] \notin Whitespace)

LastIsMarkedAI ==
    /\ messages # <<>>
    /\ messages[Len(messages)].role = "ai"
    /\ \E k \in 1..Len(messages[Len(messages)].content) :
          messages[Len(messages)].content[k] \in FinalAnswerMarkers

\* C4: when the last message is an AI message whose text holds the marker in
\* any letter case, the hook returns the trimmed text after the marker; for
\* every other log it returns no answer
C4_FinalAnswerExtraction ==
    op = "extract" =>
        IF LastIsMarkedAI
        THEN /\ update # None
             /\ LET content == messages[Len(messages)].content IN
                \E k \in 1..Len(content) :
                    /\ content[k] \in FinalAnswerMarkers
                    /\ IsTrimOf(update[1], SubSeq(content, k + 1, Len(content)))
        ELSE update = None

\* C4 witness: the lower-case marker, a line break, then the answer
C4_Witness ==
    /\ op = "extract"
    /\ messages # <<>>
    /\ messages[Len(messages)].role = "ai"
    /\ messages[Len(messages)].content = <<"final answer:", "\n", "x">>
    /\ update = Some(<<"x">>)

HistoryEntryStatusAttributes == {}

\* `HistoryEntryStatus.<name>`: the value, None for AttributeError
StatusAttr(name) == IF name \in HistoryEntryStatusAttributes THEN Some(name) ELSE None

Raise(exc) == [returned |-> None, raised |-> exc]
Return(new_state) == [returned |-> Some(new_state), raised |-> ""]

\* HistoryEntry(agent_name=..., output=..., status=..., error=...)
HistoryEntry(agent, output, status, error) ==
    [agent_name |-> agent, output |-> output, status |-> status, error |-> error]

\* the end of the three __call__ methods: new_state = state.copy(), the
\* active_agent_* fields, the history entry, and final_answer when the output
\* starts with "Final Answer:" (VisualAgent and CodeAgent)
NewState(state, agent, agent_output, error_message, status, sets_final) ==
    [state EXCEPT
        !.active_agent_name = agent,
        !.active_agent_output = agent_output,
        !.active_agent_error_message = error_message,
        !.history = Append(@, HistoryEntry(agent, agent_output, status, error_message)),
        !.final_answer =
            IF sets_final /\ agent_output # None
               /\ LStrip(agent_output[1], Whitespace) # <<>>
               /\ Head(LStrip(agent_output[1], Whitespace)) = "Final Answer:"
            THEN \* agent_output.replace("Final Answer:", "").strip()
                 Some(Strip(SelectSeq(agent_output[1], LAMBDA t : t # "Final Answer:"),
                            Whitespace))
            ELSE @]

\* the `except Exception as e` handler the three methods share:
\* error_message = str(e); status = HistoryEntryStatus.FAILED
Handler(state, agent, sets_final) ==
    IF StatusAttr("FAILED") = None THEN Raise("AttributeError")
    ELSE Return(NewState(state, agent, None, Some(<<"error">>), "FAILED", sets_final))

\* ResearcherAgent.__call__(state); what == what agent_executor.invoke does
ResearcherAgent_call(state, what) ==
    IF StatusAttr("SUCCESS") = None THEN Raise("AttributeError")      \* line 82, before the try
    ELSE IF what = "raises" THEN Handler(state, "ResearcherAgent", FALSE)
    ELSE IF what = "no_output"
         THEN IF StatusAttr("FAILED") = None                           \* line 107, inside the try
              THEN Handler(state, "ResearcherAgent", FALSE)
              ELSE Return(NewState(state, "ResearcherAgent", Some(<<"no", "output">>),
                                   None, "FAILED", FALSE))
    ELSE Return(NewState(state, "ResearcherAgent", Some(<<"x">>), None, "SUCCESS", FALSE))

\* VisualAgent.__call__(state); what == what the prompt file and self.llm.invoke do
VisualAgent_call(state, what) ==
    IF what = "prompt_missing" THEN Raise("FileNotFoundError")       \* open(), lines 60-61, before the try
    ELSE IF StatusAttr("IN_PROGRESS") = None THEN Raise("AttributeError")   \* line 91, before the try
    ELSE IF what = "raises" THEN Handler(state, "VisualAgent", TRUE)
    ELSE IF StatusAttr("SUCCESS") = None THEN Handler(state, "VisualAgent", TRUE)  \* line 97, inside the try
    ELSE Return(NewState(state, "VisualAgent", Some(<<"Final Answer:", " ", "x">>),
                         None, "SUCCESS", TRUE))

\* CodeAgent.__call__(state); what == what agent_executor.invoke does
CodeAgent_call(state, what) ==
    IF StatusAttr("IN_PROGRESS") = None THEN Raise("AttributeError")        \* line 103, before the try
    ELSE IF what = "raises" THEN Handler(state, "CodeAgent", TRUE)
    ELSE IF StatusAttr("SUCCESS") = None THEN Handler(state, "CodeAgent", TRUE)   \* lines 111/114, inside the try
    ELSE Return(NewState(state, "CodeAgent", Some(<<"x">>), None, "SUCCESS", TRUE))


\* the states a sub-agent node is entered with: the planner has named the
\* node (route_from_planner) and set its task
AgentNodes == {"researcher_agent", "visual_agent", "code_agent"}

EntryStates ==
    [ query : {<<"q">>},
      active_agent_name : AgentNodes,
      active_agent_task : {<<"t1">>, <<"t2">>},
      active_agent_output : {None, Some(<<"x">>)},
      active_agent_error_message : {None, Some(<<"error">>)},
      history : {<<>>, <<HistoryEntry("PlannerAgent", None, "SUCCESS", None)>>},
      final_answer : {None} ]

InitAgents ==
    /\ agent_state \in EntryStates
    /\ returned = None
    /\ raised = ""
    /\ outcome = ""
    /\ graph_node = ""
    /\ op = "init"
    /\ messages = <<>>
    /\ calls = 0
    /\ IdleReduce
    /\ IdleExtract
    /\ IdleDriver

\* the node runs once and the graph gets what it returns, or the exception
RunNode(node, result, what) ==
    /\ op = "init"
    /\ agent_state.active_agent_name = node
    /\ returned' = result.returned
    /\ raised' = result.raised
    /\ outcome' = what
    /\ op' = node
    /\ UNCHANGED <<messages, calls, agent_state, graph_node, reducerVars, extractVars, driverVars>>

ResearcherAgentNode ==
    \E what \in {"output", "no_output", "raises"} :
        RunNode("researcher_agent", ResearcherAgent_call(agent_state, what), what)

VisualAgentNode ==
    \E what \in {"output", "raises", "prompt_missing"} :
        RunNode("visual_agent", VisualAgent_call(agent_state, what), what)

CodeAgentNode ==
    \E what \in {"output", "raises"} :
        RunNode("code_agent", CodeAgent_call(agent_state, what), what)

NextAgents == ResearcherAgentNode \/ VisualAgentNode \/ CodeAgentNode

SpecAgents == InitAgents /\ [][NextAgents]_vars

\* C9 as stated: when the model call or the executor raises inside a
\* sub-agent, the call still returns, with the failure as a textual error in
\* the returned state, and no exception leaves the call
C9_AsStated ==
    (op \in AgentNodes /\ outcome = "raises") =>
        /\ raised = ""
        /\ returned # None
        /\ returned[1].active_agent_error_message # None


(***************************************************************************)
(* Workflow driver: router, sub-agent bubble and the driver's state        *)
(* machine (design sections 4.2, 4.3 and 4.5).  The repository's sources   *)
(* hold the delegation tools (tools/orchestrator_tools.py) and the call    *)
(* that builds the workflow (agents/orchestrator.py); the router and the   *)
(* bubble themselves are modelled from the design.                         *)
(***************************************************************************)
\* a tool name is the sequence of its parts: delegate_to_visual_agent is
\* <<"delegate_to_", "visual_agent">>
DelegationPrefix == "delegate_to_"
FinalAnswerTool == <<"provide_final_answer">>

Decision(kind, agent, arguments, call_id, text) ==
    [kind |-> kind, agent_name |-> agent, arguments |-> arguments,
     call_id |-> call_id, text |-> text]

\* what the router makes of one tool call
Decide(call) ==
    IF Head(call.name) = DelegationPrefix
    THEN Decision("Delegate", call.name[2], call.args, call.id, <<>>)
    ELSE IF call.name = FinalAnswerTool
    THEN Decision("FinalAnswer", "", <<>>, call.id, call.args[1][2])
    ELSE Decision("Error", "", <<>>, call.id, <<>>)

\* the mutant of route: the last tool call of the message decides
route_last_call(lastAIMessage) ==
    IF lastAIMessage.tool_calls = <<>>
    THEN Decision("NoOp", "", <<>>, NoId, <<>>)
    ELSE Decide(lastAIMessage.tool_calls[Len(lastAIMessage.tool_calls)])

\* route(lastAIMessage): only the first tool call is honoured
route(lastAIMessage) ==
    IF lastAIMessage.tool_calls = <<>>
    THEN Decision("NoOp", "", <<>>, NoId, <<>>)
    ELSE Decide(lastAIMessage.tool_calls[1])

RECURSIVE FormatTask(_)
\* the arguments, a sequence of <<key, value>> pairs, as one task string:
\* key=>'value' | key2=>'value2'
FormatTask(arguments) ==
    IF arguments = <<>> THEN <<>>
    ELSE <<arguments[1][1], "=>'">> \o arguments[1][2] \o <<"'">>
         \o (IF Len(arguments) > 1 THEN <<" | ">> ELSE <<>>)
         \o FormatTask(Tail(arguments))

\* position of the most recent AI message of the log, 0 when there is none
LastAI(msgs) ==
    IF \E i \in 1..Len(msgs) : msgs[i].role = "ai"
    THEN CHOOSE i \in 1..Len(msgs) :
            msgs[i].role = "ai" /\ \A j \in (i + 1)..Len(msgs) : msgs[j].role # "ai"
    ELSE 0

\* the Tool messages after position i that answer the call id
Answers(msgs, i, id) ==
    { j \in (i + 1)..Len(msgs) : msgs[j].role = "tool" /\ msgs[j].tool_call_id = id }

\* the pairing check made before a new orchestrator turn: every tool call of
\* the most recent AI message has exactly one answer
Paired(msgs) ==
    LET i == LastAI(msgs) IN
    i # 0 => \A k \in 1..Len(msgs[i].tool_calls) :
                Cardinality(Answers(msgs, i, msgs[i].tool_calls[k].id)) = 1

\* what the orchestrator's model may say at position pos of the log
OrchestratorOutputs(pos) ==
    { AIMessage(NoName, <<"x">>, <<>>),
      AIMessage(NoName, <<"x">>,
          <<ToolCall(10 * pos + 1, <<DelegationPrefix, "visual_agent">>,
                     << <<"query", <<"q">>>>, <<"file_path", <<"f">>>> >>)>>),
      AIMessage(NoName, <<"x">>,
          <<ToolCall(10 * pos + 1, <<DelegationPrefix, "researcher_agent">>, << <<"query", <<"q">>>> >>),
            ToolCall(10 * pos + 2, <<DelegationPrefix, "audio_agent">>, << <<"query", <<"r">>>> >>)>>),
      AIMessage(NoName, <<"x">>,
          <<ToolCall(10 * pos + 1, FinalAnswerTool, << <<"answer", <<"a">>>> >>)>>),
      AIMessage(NoName, <<"x">>,
          <<ToolCall(10 * pos + 1, <<"web_search">>, << <<"query", <<"q">>>> >>)>>) }

\* what a sub-agent may add to its bubble
BubbleOutputs(agent) ==
    { AIMessage(agent, <<"thought">>, <<ToolCall(1, <<"web_search">>, << <<"query", <<"q">>>> >>)>>),
      ToolMessage(agent, <<"observation">>, 1),
      AIMessage(agent, <<"Final Answer:", " ", "y">>, <<>>) }

InitDriver ==
    /\ messages = <<HumanMessage(NoName, <<"q">>)>>     \* the user's query
    /\ driver = "Orchestrating"
    /\ delegation = None
    /\ bubble = <<>>
    /\ remaining_steps = MaxSteps
    /\ final_answer = None
    /\ update = None
    /\ calls = 0
    /\ op = "init"
    /\ IdleReduce
    /\ IdleAgents

\* the mutant of OrchestratorModelTurn: the turn is appended without the
\* pairing check
OrchestratorModelTurnUnchecked ==
    /\ driver = "Orchestrating"
    /\ remaining_steps > 0
    /\ \E m \in OrchestratorOutputs(Len(messages) + 1) : messages' = Append(messages, m)
    /\ driver' = "Routing"
    /\ remaining_steps' = remaining_steps - 1
    /\ op' = "turn"
    /\ UNCHANGED <<calls, delegation, bubble, reducerVars, extractVars, nodeVars>>

\* Orchestrating -> Routing: one orchestrator model turn; a turn attempted
\* while a tool call of the previous one is unanswered is a fatal error
OrchestratorModelTurn ==
    /\ driver = "Orchestrating"
    /\ remaining_steps > 0
    /\ IF Paired(messages)
       THEN /\ \E m \in OrchestratorOutputs(Len(messages) + 1) : messages' = Append(messages, m)
            /\ driver' = "Routing"
            /\ remaining_steps' = remaining_steps - 1
            /\ op' = "turn"
       ELSE /\ driver' = "Failed"
            /\ op' = "pairing_violation"
            /\ UNCHANGED <<messages, remaining_steps>>
    /\ UNCHANGED <<calls, delegation, bubble, reducerVars, extractVars, nodeVars>>

\* the step budget is used up: Terminated, with no answer
ForceTerminate ==
    /\ driver = "Orchestrating"
    /\ remaining_steps = 0
    /\ driver' = "Terminated"
    /\ op' = "force"
    /\ UNCHANGED <<messages, calls, delegation, bubble, remaining_steps,
                   reducerVars, extractVars, nodeVars>>

\* Routing: the router's decision on the last AI message
Route ==
    /\ driver = "Routing"
    /\ LET d == route(messages[Len(messages)]) IN
         CASE d.kind = "Delegate" ->
                /\ driver' = "SubAgentRunning"
                /\ delegation' = Some([target_agent |-> d.agent_name,
                                       arguments |-> d.arguments,
                                       call_id |-> d.call_id])
                /\ bubble' = <<HumanMessage(NoName, FormatTask(d.arguments))>>
                /\ UNCHANGED <<messages, final_answer>>
           [] d.kind = "FinalAnswer" ->
                /\ driver' = "Terminated"
                /\ final_answer' = Some(d.text)
                /\ UNCHANGED <<messages, delegation, bubble>>
           [] d.kind = "Error" ->
                \* an unknown tool name: an error result, as the call's Tool response
                /\ driver' = "Orchestrating"
                /\ messages' = Append(messages, ToolMessage(NoName, <<"error">>, d.call_id))
                /\ UNCHANGED <<delegation, bubble, final_answer>>
           [] OTHER ->
                \* no agent designated: the orchestrator goes on while steps remain
                /\ driver' = "Orchestrating"
                /\ UNCHANGED <<messages, delegation, bubble, final_answer>>
    /\ op' = "route"
    /\ UNCHANGED <<calls, remaining_steps, update, reducerVars, nodeVars>>

\* the mutant of BubbleStep: the sub-agent's message goes to the parent log too
BubbleStepShared ==
    /\ driver = "SubAgentRunning"
    /\ Len(bubble) <= MaxBubble
    /\ \E m \in BubbleOutputs(delegation[1].target_agent) :
          /\ bubble' = Append(bubble, m)
          /\ messages' = Append(messages, m)
    /\ op' = "bubble_step"
    /\ UNCHANGED <<calls, driver, delegation, remaining_steps,
                   reducerVars, extractVars, nodeVars>>

\* one step of the sub-agent's own loop, inside its bubble
BubbleStep ==
    /\ driver = "SubAgentRunning"
    /\ Len(bubble) <= MaxBubble
    /\ \E m \in BubbleOutputs(delegation[1].target_agent) : bubble' = Append(bubble, m)
    /\ op' = "bubble_step"
    /\ UNCHANGED <<messages, calls, driver, delegation, remaining_steps,
                   reducerVars, extractVars, nodeVars>>

\* SubAgentRunning -> Orchestrating: the bubble ends, with the content of its
\* final message or, when it failed, with an error text; the result is
\* appended to the parent log as the Tool message of the pending call
BubbleReport ==
    /\ driver = "SubAgentRunning"
    /\ \E failed \in BOOLEAN :
        LET result == IF failed THEN <<"error">> ELSE bubble[Len(bubble)].content
            pending == messages[LastAI(messages)].tool_calls[1].id
        IN messages' = Append(messages,
                              ToolMessage(delegation[1].target_agent, result, pending))
    /\ driver' = "Orchestrating"
    /\ delegation' = None
    /\ bubble' = <<>>
    /\ op' = "bubble_report"
    /\ UNCHANGED <<calls, remaining_steps, reducerVars, extractVars, nodeVars>>

NextDriver ==
    \/ OrchestratorModelTurn
    \/ ForceTerminate
    \/ Route
    \/ BubbleStep
    \/ BubbleReport

SpecDriver == InitDriver /\ [][NextDriver]_vars


\* position of the first AI message after position i, Len(msgs) + 1 when
\* there is none
NextAI(msgs, i) ==
    IF \E j \in (i + 1)..Len(msgs) : msgs[j].role = "ai"
    THEN CHOOSE j \in (i + 1)..Len(msgs) :
            msgs[j].role = "ai" /\ \A l \in (i + 1)..(j - 1) : msgs[l].role # "ai"
    ELSE Len(msgs) + 1

\* C7: pairing invariant.  In every log the driver produces, a tool call of
\* an AI message is answered by at most one later Tool message, no answer comes
\* after the next AI message, and once the next AI message is in the log every
\* tool call of the earlier one has exactly one answer before it.
C7_PairingInvariant ==
    \A i \in 1..Len(messages) :
        messages[i].role = "ai" =>
            \A k \in 1..Len(messages[i].tool_calls) :
                LET ans == Answers(messages, i, messages[i].tool_calls[k].id)
                    nxt == NextAI(messages, i)
                IN /\ Cardinality(ans) <= 1
                   /\ \A j \in ans : j < nxt
                   /\ nxt <= Len(messages) => Cardinality(ans) = 1

\* a log in which an AI message with a tool call is followed by a later AI message
C7_Witness ==
    \E i \in 1..Len(messages) :
        /\ messages[i].role = "ai"
        /\ messages[i].tool_calls # <<>>
        /\ NextAI(messages, i) <= Len(messages)
        /\ driver = "Routing"

FirstCallDelegates ==
    /\ messages[Len(messages)].role = "ai"
    /\ messages[Len(messages)].tool_calls # <<>>
    /\ Head(messages[Len(messages)].tool_calls[1].name) = DelegationPrefix

\* C10: delegation routing.  When the router has decided on an AI message
\* whose first tool call is delegate_to_<X>, a sub-agent runs for <X>, with the
\* arguments and the id of that first call, whatever further calls follow it.
C10_DelegationRouting ==
    (op = "route" /\ FirstCallDelegates) =>
        LET first == messages[Len(messages)].tool_calls[1] IN
        /\ driver = "SubAgentRunning"
        /\ delegation = Some([target_agent |-> first.name[2],
                              arguments |-> first.args,
                              call_id |-> first.id])

\* the router has decided on a message with two delegating tool calls
C10_Witness ==
    /\ op = "route"
    /\ FirstCallDelegates
    /\ Len(messages[Len(messages)].tool_calls) = 2
    /\ delegation # None
    /\ delegation[1].target_agent = "researcher_agent"

(***************************************************************************)
(* The compiled graph of agents/graph.py: planner_agent is the entry       *)
(* point, the planner's conditional edge names the next node, every        *)
(* specialized node has an edge back to planner_agent, and final_agent is  *)
(* the finish point.  A node that lets an exception out ends the run.      *)
(***************************************************************************)
SpecializedNodes == {"researcher_agent", "audio_agent", "code_agent", "visual_agent"}
GraphNodes == {"planner_agent", "final_agent"} \cup SpecializedNodes
END == "__end__"
Aborted == "aborted"      \* the exception of a node has left the graph's invocation

\* route_from_planner(state): active_agent_name when it is truthy
route_from_planner(state) ==
    IF state.active_agent_name # "" THEN state.active_agent_name ELSE "final_agent"

\* the mapping of the conditional edge: router output -> target node
PathMap ==
    [n \in SpecializedNodes \cup {"final_agent"} |-> n]

\* new_state as an except handler of PlannerAgent.__call__ sets it up
\* (lines 191-194 and 212-215), before the history entry is made
PlannerFailureState(state, task) ==
    [state EXCEPT
        !.active_agent_error_message = Some(<<"error">>),
        !.active_agent_name = "PlannerAgent",
        !.active_agent_task = task]

\* new_state as the try block sets it up (lines 142-146)
PlannerSuccessState(state, next_agent) ==
    [state EXCEPT
        !.active_agent_name = next_agent,
        !.active_agent_task = <<"t1">>,
        !.active_agent_error_message = None]

\* the except handlers of PlannerAgent.__call__ (JSONDecodeError, Exception)
PlannerHandler(state, task) ==
    IF StatusAttr("FAILED") = None THEN Raise("AttributeError")
    ELSE Return([PlannerFailureState(state, task) EXCEPT
            !.history = Append(@, HistoryEntry("PlannerAgent", Some(<<"error">>),
                                               "FAILED", Some(<<"error">>)))])

\* PlannerAgent.__call__(state); what == what the model's reply is: JSON
\* naming next_agent and next_task ("delegates"), JSON without one of them
\* ("no_agent"), text that is not JSON ("bad_json"), or an exception ("raises")
PlannerAgent_call(state, what, next_agent) ==
    IF what = "raises" THEN PlannerHandler(state, <<"Handle unexpected error">>)
    ELSE IF what = "bad_json" THEN PlannerHandler(state, <<"Handle JSON parsing error">>)
    ELSE IF what = "no_agent"                                   \* ValueError, line 140
         THEN PlannerHandler(state, <<"Handle unexpected error">>)
    ELSE IF StatusAttr("SUCCESS") = None                        \* line 174, inside the try
         THEN PlannerHandler(state, <<"Handle unexpected error">>)
    ELSE Return([PlannerSuccessState(state, next_agent) EXCEPT
            !.history = Append(@, HistoryEntry("PlannerAgent", Some(<<next_agent>>),
                                               "SUCCESS", None))])

\* the new_state dicts PlannerAgent.__call__ builds on the path `what`: the
\* try block's when the reply names an agent and a task, the handler's when
\* an exception is caught (that of line 174 included)
PlannerAssignments(state, what, next_agent) ==
    (IF what = "delegates" THEN {PlannerSuccessState(state, next_agent)} ELSE {})
    \cup (IF what = "bad_json"
          THEN {PlannerFailureState(state, <<"Handle JSON parsing error">>)}
          ELSE IF what \in {"raises", "no_agent"} \/ StatusAttr("SUCCESS") = None
          THEN {PlannerFailureState(state, <<"Handle unexpected error">>)}
          ELSE {})

\* the agents the planner's model names in its reply
PlannerChoices == {"researcher_agent", "final_agent"}

\* AudioAgent.invoke(state)
AudioAgent_invoke(state, what) ==
    IF StatusAttr("SUCCESS") = None THEN Raise("AttributeError")      \* line 85, before the try
    ELSE IF what = "raises" THEN Handler(state, "AudioAgent", FALSE)
    ELSE Return(NewState(state, "AudioAgent", Some(<<"x">>), None, "SUCCESS", FALSE))

\* FinalAgent.__call__(state)
FinalAgent_call(state, what) ==
    IF what = "prompt_missing" THEN Raise("FileNotFoundError")        \* open(), lines 55-56
    ELSE IF StatusAttr("IN_PROGRESS") = None THEN Raise("AttributeError")   \* line 72, before the try
    ELSE IF what = "raises"
         THEN IF StatusAttr("FAILED") = None THEN Raise("AttributeError")
              ELSE Return([state EXCEPT
                      !.active_agent_name = "FinalAgent",
                      !.active_agent_output = None,
                      !.active_agent_error_message = Some(<<"error">>),
                      !.final_answer = None,
                      !.history = Append(@, HistoryEntry("FinalAgent", None, "FAILED",
                                                         Some(<<"error">>)))])
    ELSE IF StatusAttr("SUCCESS") = None THEN Raise("AttributeError")
    ELSE Return([state EXCEPT
            !.active_agent_name = "FinalAgent",
            !.active_agent_output = Some(<<"a">>),
            !.active_agent_error_message = None,
            !.final_answer = Some(<<"a">>),
            !.history = Append(@, HistoryEntry("FinalAgent", Some(<<"a">>), "SUCCESS", None))])

\* the states whose active_agent_name is one of names
StatesNaming(names) ==
    [ query : {<<"q">>},
      active_agent_name : names,
      active_agent_task : {<<"t1">>, <<"t2">>},
      active_agent_output : {None, Some(<<"x">>)},
      active_agent_error_message : {None, Some(<<"error">>)},
      history : {<<>>, <<HistoryEntry("PlannerAgent", None, "SUCCESS", None)>>},
      final_answer : {None} ]

\* the states a node of the graph is entered with: the entry point with no
\* agent named yet, the planner after a specialized agent, a specialized
\* node or the finish point named by the planner
NodeEntryStates(n) ==
    IF n = "planner_agent" THEN StatesNaming({"", "ResearcherAgent"})
    ELSE IF n = "final_agent" THEN StatesNaming({"", "final_agent"})
    ELSE StatesNaming({n})

\* one superstep of the graph: the node about to run and the state handed to it
InitGraph ==
    /\ graph_node \in GraphNodes
    /\ agent_state \in NodeEntryStates(graph_node)
    /\ returned = None
    /\ raised = ""
    /\ outcome = ""
    /\ op = "init"
    /\ messages = <<>>
    /\ calls = 0
    /\ IdleReduce
    /\ IdleExtract
    /\ IdleDriver

\* the node has run: its exception ends the run, what it returns is the new
\* state and the edge out of the node names the next node
NodeRan(n, result, what, next) ==
    /\ returned' = result.returned
    /\ raised' = result.raised
    /\ outcome' = what
    /\ op' = n
    /\ IF result.raised # ""
       THEN graph_node' = Aborted /\ UNCHANGED agent_state
       ELSE agent_state' = result.returned[1] /\ graph_node' = next
    /\ UNCHANGED <<messages, calls, reducerVars, extractVars, driverVars>>

\* the target of the planner's conditional edge (lines 92-102); a router
\* output that the mapping does not hold raises
PlannerEdge(result) ==
    IF result.raised # "" THEN Aborted
    ELSE IF route_from_planner(result.returned[1]) \in DOMAIN PathMap
    THEN PathMap[route_from_planner(result.returned[1])]
    ELSE Aborted

PlannerNode ==
    /\ graph_node = "planner_agent"
    /\ \E what \in {"delegates", "no_agent", "bad_json", "raises"},
          next_agent \in PlannerChoices :
         LET result == PlannerAgent_call(agent_state, what, next_agent)
         IN NodeRan("planner_agent", result, what, PlannerEdge(result))

\* the edge of a specialized node leads to planner_agent (lines 105-108)
SpecializedEdge(n) == "planner_agent"

ResearcherNode ==
    /\ graph_node = "researcher_agent"
    /\ \E what \in {"output", "no_output", "raises"} :
         NodeRan("researcher_agent", ResearcherAgent_call(agent_state, what), what,
                 SpecializedEdge("researcher_agent"))

AudioNode ==
    /\ graph_node = "audio_agent"
    /\ \E what \in {"output", "raises"} :
         NodeRan("audio_agent", AudioAgent_invoke(agent_state, what), what,
                 SpecializedEdge("audio_agent"))

CodeNode ==
    /\ graph_node = "code_agent"
    /\ \E what \in {"output", "raises"} :
         NodeRan("code_agent", CodeAgent_call(agent_state, what), what,
                 SpecializedEdge("code_agent"))

VisualNode ==
    /\ graph_node = "visual_agent"
    /\ \E what \in {"output", "raises", "prompt_missing"} :
         NodeRan("visual_agent", VisualAgent_call(agent_state, what), what,
                 SpecializedEdge("visual_agent"))

\* the mutant of FinalNode: final_agent has an edge back to the planner
\* where its finish point should be
FinalNodeRestarting ==
    /\ graph_node = "final_agent"
    /\ \E what \in {"output", "raises", "prompt_missing"} :
         /\ returned' = FinalAgent_call(agent_state, what).returned
         /\ raised' = FinalAgent_call(agent_state, what).raised
         /\ outcome' = what
         /\ op' = "final_agent"
         /\ graph_node' = "planner_agent"
         /\ UNCHANGED <<agent_state, messages, calls, reducerVars, extractVars, driverVars>>

\* final_agent is the finish point (line 86)
FinalNode ==
    /\ graph_node = "final_agent"
    /\ \E what \in {"output", "raises", "prompt_missing"} :
         NodeRan("final_agent", FinalAgent_call(agent_state, what), what, END)

NextGraph ==
    \/ PlannerNode
    \/ ResearcherNode
    \/ AudioNode
    \/ CodeNode
    \/ VisualNode
    \/ FinalNode

SpecGraph == InitGraph /\ [][NextGraph]_vars

\* C11 as stated: when the planner's turn designates no next agent, the
\* graph moves to the finishing node final_agent
C11_AsStated ==
    (op = "planner_agent" /\ outcome = "no_agent") => graph_node = "final_agent"

\* C12 as stated: every run that stops has reached Terminated, the end of
\* the graph behind its finish point
C12_AsStated ==
    graph_node \notin GraphNodes => graph_node = END

\* C13 as stated: after the turn of a specialized agent the planner is the
\* next node in control
C13_AsStated ==
    op \in SpecializedNodes => graph_node = "planner_agent"

NoAnswerText == <<"Workflow completed, but no clear answer was found.">>
ErrorText(e) == <<"An error occurred while processing your request: ", e>>

\* final_state.get("final_answer") is truthy: neither None nor ""
Truthy(value) == value # None /\ value[1] # <<>>

\* the mutant of BasicAgent_call: the invocation is not inside a try
BasicAgent_call_unguarded(final_messages, final, invoke, flush) ==
    IF invoke = "raises" THEN Raise("WorkflowError")
    ELSE IF flush = "raises" THEN Raise("FlushError")
    ELSE IF Truthy(final) THEN Return(final[1])
    ELSE IF final_messages # <<>> /\ final_messages[Len(final_messages)].role = "ai"
         THEN Return(final_messages[Len(final_messages)].content)
    ELSE Return(NoAnswerText)

\* BasicAgent.__call__(question, path); final_messages and final are the
\* "messages" and "final_answer" of the state the invocation returns, invoke
\* and flush say whether the invocation and the flush of the finally block raise
BasicAgent_call(final_messages, final, invoke, flush) ==
    IF flush = "raises" THEN Raise("FlushError")            \* finally, line 89
    ELSE IF invoke = "raises" THEN Return(ErrorText("WorkflowError"))
    ELSE IF Truthy(final) THEN Return(final[1])
    ELSE IF final_messages # <<>> /\ final_messages[Len(final_messages)].role = "ai"
         THEN Return(final_messages[Len(final_messages)].content)
    ELSE Return(NoAnswerText)

\* the state the invocation ends with: the log begins with the question
\* (line 60); final_answer is None, "" or a text
InitApp ==
    /\ messages \in { <<HumanMessage(NoName, <<"q">>)>> \o tail : tail \in Logs(MaxLog - 1) }
    /\ final_answer \in {None, Some(<<>>), Some(<<"a">>)}
    /\ update = None
    /\ calls = 0
    /\ op = "init"
    /\ IdleReduce
    /\ IdleAgents
    /\ IdleDriver

BasicAgentCall ==
    /\ op = "init"
    /\ \E invoke \in {"returns", "raises"}, flush \in {"ok", "raises"} :
         LET result == BasicAgent_call(messages, final_answer, invoke, flush) IN
         /\ returned' = result.returned
         /\ raised' = result.raised
         /\ outcome' = invoke
    /\ op' = "BasicAgent"
    /\ UNCHANGED <<messages, calls, agent_state, graph_node, reducerVars, extractVars, driverVars>>

NextApp == BasicAgentCall

SpecApp == InitApp /\ [][NextApp]_vars

LastIsAI == messages[Len(messages)].role = "ai"

RECURSIVE MergeMessages(_, _)
\* the returned "messages" merged into state["messages"]: a message the log
\* already holds stays where it is, a new message is appended
MergeMessages(log, view) ==
    IF view = <<>> THEN log
    ELSE IF Head(view).src # 0 THEN MergeMessages(log, Tail(view))
    ELSE MergeMessages(Append(log, Head(view).msg), Tail(view))

\* the pre_model_hook node: the hook runs on the state and its return value
\* updates the state
PreModelHook ==
    /\ calls < MaxCalls
    /\ op # "pre_model_hook"
    /\ LET update_ == clean_agent_messages_hook_instance(messages, agent_name) IN
         /\ cleaned' = Some(update_)
         /\ messages' = MergeMessages(messages, update_.messages)
    /\ calls' = calls + 1
    /\ op' = "pre_model_hook"
    /\ UNCHANGED <<agent_name, extractVars, nodeVars, driverVars>>

\* the agent's model answers the view: its AI message, named for the agent
\* (name= of create_react_agent), is appended
AgentModelTurn ==
    /\ op = "pre_model_hook"
    /\ messages' = Append(messages, AIMessage(agent_name, <<"x">>, <<>>))
    /\ op' = "model"
    /\ UNCHANGED <<calls, agent_name, cleaned, extractVars, nodeVars, driverVars>>

NextPreModel == PreModelHook \/ AgentModelTurn

SpecPreModel == InitReduce /\ [][NextPreModel]_vars

\* C16 as stated: building the view before a model call writes nothing into
\* the shared log: the synthetic Human message and the pruning are not
\* persisted in state["messages"]
C16_AsStated ==
    [][op' = "pre_model_hook" => messages' = messages]_vars

(***************************************************************************)
(* The visual agent of agents/visual.py: its pre_model_hook runs the       *)
(* reducer made for "visual" and turns the Tool messages that carry        *)
(* Base64 image data into Human messages with an image part.  A content    *)
(* part {"type": "image_url", ...} is written as the token "image_url:"    *)
(* followed by the tokens of the URL.                                      *)
(***************************************************************************)
Base64Markers == {";base64,", "base64,"}    \* the tokens that hold the text "base64,"

\* str.split(sep)[0]: the text before the first sep
SplitFirst(s, sep) ==
    IF FirstIn(s, {sep}) = 0 THEN s ELSE SubSeq(s, 1, FirstIn(s, {sep}) - 1)

\* str.split(sep)[1]: the text between the first and the second sep; None
\* for the IndexError when s has no sep
SplitSecond(s, sep) ==
    IF FirstIn(s, {sep}) = 0 THEN None
    ELSE Some(SplitFirst(After(s, FirstIn(s, {sep})), sep))

ImageContent(mime_type, base64_data) ==
    <<"Image successfully loaded:", "image_url:", "data:image/">>
        \o mime_type \o <<";base64,">> \o base64_data

\* the body of the loop of lines 46-68 for one message of cleaned_messages
FormatForMultimodal(elem) ==
    IF elem.msg.role = "tool" /\ elem.msg.content # <<>>
       /\ \E t \in 1..Len(elem.msg.content) : elem.msg.content[t] \in Base64Markers
    THEN LET image == SplitSecond(elem.msg.content, "data:image/") IN
         IF image = None \/ SplitSecond(image[1], ";base64,") = None
         THEN \* IndexError
              Elem(0, HumanMessage(NoName,
                   <<"Image data received but could not be parsed: ">> \o elem.msg.content))
         ELSE Elem(0, HumanMessage(NoName,
                   ImageContent(SplitFirst(image[1], ";base64,"),
                                SplitSecond(image[1], ";base64,")[1])))
    ELSE elem

\* the mutant of format_messages_for_multimodal_llm: the Tool messages are
\* handed on as they are
format_messages_unconverted(msgs) ==
    LET input_state == clean_agent_messages_hook_instance(msgs, "visual") IN
    [messages |-> IF input_state.messages = <<>> THEN <<>> ELSE Tail(input_state.messages),
     input |-> input_state.input]

\* _format_messages_for_multimodal_llm(state)
format_messages_for_multimodal_llm(msgs) ==
    LET input_state == clean_agent_messages_hook_instance(msgs, "visual")
        cleaned_messages ==                                    \* input_state["messages"][1:]
            IF input_state.messages = <<>> THEN <<>> ELSE Tail(input_state.messages)
    IN [messages |-> [p \in 1..Len(cleaned_messages) |-> FormatForMultimodal(cleaned_messages[p])],
        input |-> input_state.input]

\* read_image_and_encode(file_path): a data URI, or an error text
ImageToolResults ==
    { <<"data:image/", "png", ";base64,", "AAAA">>,
      <<"Error: File not found at ", "f.png">> }

\* the messages a log of the visual agent's run begins with
VisualLogMessages ==
    { SystemMessage(NoName, <<"S">>),
      HumanMessage(NoName, <<"q">>),
      AIMessage("visual", <<"x">>, <<ToolCall(1, <<"read_image_and_encode">>, <<"e.png">>)>>),
      ToolMessage("visual", <<"data:image/", "gif", ";base64,", "BBBB">>, 1),
      ToolMessage("visual", <<"base64,", "CCCC">>, 1),
      ToolMessage("audio", <<"o">>, 2) }

\* the orchestrator's delegation to the visual agent, with or without a file path
VisualDelegations ==
    { AIMessage(NoName, <<"Thought", "\n", "Action Input:", " ", Quote, "describe", " ", "f.png", Quote>>, <<>>),
      AIMessage(NoName, <<"Thought", "\n", "Action Input:", " ", "describe">>, <<>>) }

\* the visual agent is entered: the log ends with the delegation
InitVisual ==
    /\ messages \in { prefix \o <<d>> :
                        prefix \in UNION { [1..k -> VisualLogMessages] : k \in 0..(MaxLog - 1) },
                        d \in VisualDelegations }
    /\ agent_name = "visual"
    /\ cleaned = None
    /\ calls = 0
    /\ op = "init"
    /\ IdleExtract
    /\ IdleAgents
    /\ IdleDriver

\* the pre_model_hook node of the visual agent: the hook's return value
\* updates the state and is what the model call gets
VisualPreModelHook ==
    /\ calls < MaxCalls
    /\ op \in {"init", "tool"}
    /\ LET update_ == format_messages_for_multimodal_llm(messages) IN
         /\ cleaned' = Some(update_)
         /\ messages' = MergeMessages(messages, update_.messages)
    /\ calls' = calls + 1
    /\ op' = "visual_hook"
    /\ UNCHANGED <<agent_name, extractVars, nodeVars, driverVars>>

\* the model of the visual agent answers: a call of its tool, or its answer
VisualModelTurn ==
    /\ op = "visual_hook"
    /\ \E tool_calls \in { <<>>, <<ToolCall(10 * Len(messages), <<"read_image_and_encode">>, <<"f.png">>)>> } :
         messages' = Append(messages, AIMessage("visual", <<"x">>, tool_calls))
    /\ op' = "model"
    /\ UNCHANGED <<calls, agent_name, cleaned, extractVars, nodeVars, driverVars>>

\* the tool node answers the call: the Tool message carries the tool's
\* result, under the agent's name or under the tool's
VisualToolStep ==
    /\ op = "model"
    /\ messages[Len(messages)].tool_calls # <<>>
    /\ \E result \in ImageToolResults, name \in {"visual", "read_image_and_encode"} :
         messages' = Append(messages,
                            ToolMessage(name, result, messages[Len(messages)].tool_calls[1].id))
    /\ op' = "tool"
    /\ UNCHANGED <<calls, agent_name, cleaned, extractVars, nodeVars, driverVars>>

NextVisual == VisualPreModelHook \/ VisualModelTurn \/ VisualToolStep

SpecVisual == InitVisual /\ [][NextVisual]_vars

HasImagePart(msg) ==
    msg.role = "human" /\ \E t \in 1..Len(msg.content) : msg.content[t] = "image_url:"

\* position of the most recent delegation in the log
DelegationPos ==
    CHOOSE k \in 1..Len(messages) :
        HasMarker(messages[k]) /\ \A j \in (k + 1)..Len(messages) : ~HasMarker(messages[j])

DelegatedWithPath ==
    \E t \in 1..Len(messages[DelegationPos].content) : messages[DelegationPos].content[t] = "f.png"

\* a Tool message of the visual agent's run that carries a data URI
IsImageResult(j) ==
    /\ j > DelegationPos
    /\ messages[j].role = "tool"
    /\ messages[j].name = "visual"
    /\ Head(messages[j].content) = "data:image/"

RegisteredAgents == {"visual", "audio", "researcher", "code", "generic"}

\* the agents whose create_react_agent call names a pre_model_hook
\* (create_generic_agent names none)
HookedAgents == {"visual", "audio", "researcher", "code"}

\* the messages of the state as they are, each the log's own object
WholeLog(msgs) == [p \in 1..Len(msgs) |-> Elem(p, msgs[p])]

\* the messages the model call of `agent` is given for the state's log
ModelInput(msgs, agent) ==
    IF agent \notin HookedAgents THEN WholeLog(msgs)
    ELSE IF agent = "visual" THEN format_messages_for_multimodal_llm(msgs).messages
    ELSE clean_agent_messages_hook_instance(msgs, agent).messages

InitRegistered ==
    /\ messages \in Logs(MaxLog)
    /\ agent_name \in RegisteredAgents
    /\ cleaned = None
    /\ calls = 0
    /\ op = "init"
    /\ IdleExtract
    /\ IdleAgents
    /\ IdleDriver

\* a model call of a registered agent: its hook, when it has one, makes the
\* model's input and updates the state
SubAgentModelCall ==
    /\ calls < MaxCalls
    /\ LET input == ModelInput(messages, agent_name) IN
         /\ cleaned' = Some([messages |-> input, input |-> <<>>])
         /\ messages' = IF agent_name \in HookedAgents
                        THEN MergeMessages(messages, input) ELSE messages
    /\ calls' = calls + 1
    /\ op' = "model_input"
    /\ UNCHANGED <<agent_name, extractVars, nodeVars, driverVars>>

NextRegistered == SubAgentModelCall

SpecRegistered == InitRegistered /\ [][NextRegistered]_vars

\* C18 as stated: no model call of a registered agent is given an AI or Tool
\* message named for another agent
C18_AsStated ==
    op = "model_input" =>
        \A p \in 1..Len(View) :
            View[p].msg.role \in {"ai", "tool"} => ~Foreign(View[p].msg)

(***************************************************************************)
(* The reducer's fallbacks, on the logs of SpecReduce.                     *)
(***************************************************************************)
NoMarker == \A k \in 1..Len(messages) : ~HasMarker(messages[k])
HasHuman == \E k \in 1..Len(messages) : messages[k].role = "human"

\* position of the most recent Human message of the log
LastHuman ==
    CHOOSE h \in 1..Len(messages) :
        messages[h].role = "human" /\ \A j \in (h + 1)..Len(messages) : messages[j].role # "human"

\* the message at position j of the log is one the scratchpad loop keeps
Collected(j) ==
    /\ j # FirstSystemIndex(messages)
    /\ \/ messages[j].name = agent_name
       \/ messages[j].role = "ai" /\ messages[j].name = NoName

\* C19: human fallback.  When no AI message of the log carries the marker
\* and the log has a Human message, the returned input is the content of the
\* most recent Human message, that very message is the effective-input
\* element of the view, and the scratchpad that follows it is made of the
\* messages after it, and of all of those the reducer keeps for the agent.
C19_HumanFallback ==
    (cleaned # None /\ NoMarker /\ HasHuman) =>
        /\ Input = messages[LastHuman].content
        /\ Len(View) >= InputPos
        /\ View[InputPos] = Elem(LastHuman, messages[LastHuman])
        /\ \A p \in (InputPos + 1)..Len(View) : View[p].src > LastHuman
        /\ \A j \in (LastHuman + 1)..Len(messages) :
              Collected(j) => \E p \in (InputPos + 1)..Len(View) : View[p].src = j

\* the log has two Human messages and a message of the agent after the later one
C19_Witness ==
    /\ cleaned # None
    /\ NoMarker
    /\ Len(messages) = 3
    /\ messages[1].role = "human"
    /\ messages[2].role = "human"
    /\ messages[1] # messages[2]
    /\ messages[3].name = agent_name
    /\ messages[3].role = "ai"
    /\ Len(View) = 2

\* C20: degraded input.  When the log has neither a marker-bearing AI message
\* nor a Human message, the reducer returns an empty input, the view holds no
\* Human message, and the scratchpad is collected from the start of the log:
\* after the first System message, the view is every message of the log the
\* reducer keeps for the agent, in the log's order.
C20_DegradedInput ==
    (cleaned # None /\ NoMarker /\ ~HasHuman) =>
        /\ Input = <<>>
        /\ \A p \in 1..Len(View) : View[p].msg.role # "human"
        /\ \A j \in 1..Len(messages) :
              Collected(j) => \E p \in 1..Len(View) : View[p].src = j
        /\ \A p, q \in 1..Len(View) :
              (p < q /\ View[p].msg.role # "system") => View[p].src < View[q].src
        /\ \A p \in 1..Len(View) : View[p].src # 0 /\ View[p].msg = messages[View[p].src]

\* a log without marker and Human message whose first message is kept
C20_Witness ==
    /\ cleaned # None
    /\ NoMarker
    /\ ~HasHuman
    /\ Len(messages) = 3
    /\ messages[1].role = "ai"
    /\ messages[1].name = agent_name
    /\ messages[3].role = "system"
    /\ Len(View) >= 2

(***************************************************************************)
(* The scratchpad part of the view, on the logs of SpecReduce.             *)
(***************************************************************************)
\* position in the log of the effective-input message: the most recent
\* marker-bearing AI message, else the most recent Human message, else 0
EffectivePos ==
    IF ~NoMarker THEN DelegationPos ELSE IF HasHuman THEN LastHuman ELSE 0

\* the message at position j is named for the agent or is an unnamed AI message
Qualifies(j) ==
    \/ messages[j].name = agent_name
    \/ messages[j].role = "ai" /\ messages[j].name = NoName

\* the elements of the view after the effective-input message are the log's
\* own messages, from after the effective-input position, in the log's order
\* and each once; of the messages up to that position the view holds only
\* the first System message and, in the fallback, the Human message itself
ScratchpadFromLog ==
    /\ \A p \in (InputPos + 1)..Len(View) :
          /\ View[p].src > EffectivePos
          /\ View[p] = Elem(View[p].src, messages[View[p].src])
          /\ Qualifies(View[p].src)
    /\ \A p, q \in (InputPos + 1)..Len(View) : p < q => View[p].src < View[q].src
    /\ \A p \in 1..Len(View) :
          View[p].src \in 1..EffectivePos =>
              \/ p = 1 /\ View[p].src = FirstSystemIndex(messages)
              \/ p = InputPos /\ View[p].src = EffectivePos /\ NoMarker

\* C21 as stated: the part of the view after the effective-input message is
\* exactly the log messages after the effective-input position that are named
\* for the agent or are unnamed AI messages, in order and each once
C21_AsStated ==
    (cleaned # None /\ EffectivePos # 0) =>
        /\ ScratchpadFromLog
        /\ \A j \in (EffectivePos + 1)..Len(messages) :
              Qualifies(j) => \E p \in (InputPos + 1)..Len(View) : View[p].src = j

\* C21 amended: exact scratchpad content.  The part of the view after the
\* effective-input message is exactly the log messages after the
\* effective-input position that are named for the agent or are unnamed AI
\* messages, in order and each once, other than the first System message of
\* the log, which stays the first element of the view wherever the log has it
C21_ExactScratchpad ==
    (cleaned # None /\ EffectivePos # 0) =>
        /\ ScratchpadFromLog
        /\ \A j \in (EffectivePos + 1)..Len(messages) :
              Collected(j) <=> \E p \in (InputPos + 1)..Len(View) : View[p].src = j

\* the delegation is followed by a tool result of another agent and by a
\* message of this agent: the view is the payload and that message
C21_Witness ==
    /\ cleaned # None
    /\ Len(messages) = 3
    /\ HasMarker(messages[1])
    /\ messages[2].role = "tool" /\ Foreign(messages[2])
    /\ messages[3].name = agent_name /\ messages[3].role = "ai" /\ ~HasMarker(messages[3])
    /\ Len(View) = 2
    /\ View[2].src = 3

(***************************************************************************)
(* One delegated run of a sub-agent made by create_react_agent with the    *)
(* reducer as its pre_model_hook (agents/audio.py, researcher.py,          *)
(* interpreter.py): the log ends with the supervisor's delegation, then    *)
(* hook, model and tool node take turns.  The agent's prompt tells its     *)
(* model to answer in the Thought/Action/Action Input pattern.             *)
(***************************************************************************)
\* the supervisor's delegation messages
SupervisorDelegations ==
    { AIMessage(NoName, <<"Thought", "\n", "Action Input:", " ", Quote, "y", Quote>>, <<>>),
      AIMessage("supervisor", <<"Action Input:", " ", "w">>, <<>>) }

\* what the sub-agent's model may write next to a tool call
SubAgentThoughts ==
    { <<>>,
      <<"x">>,
      <<"Thought", "\n", "Action:", "tool", "\n", "Action Input:", " ", "z">> }

InitDelegated ==
    /\ \E prefix \in Logs(MaxLog - 2), d \in SupervisorDelegations :
         /\ messages = Append(prefix, d)
         /\ \E agent \in AgentNames :
              /\ agent_name = agent
              /\ delegation = Some([target_agent |-> agent,
                                    arguments |-> DelegatedContent(ActionInputMatch(d.content)[1]),
                                    call_id |-> NoId])
    /\ cleaned = None
    /\ calls = 0
    /\ op = "init"
    /\ IdleExtract
    /\ IdleAgents
    /\ driver = "" /\ bubble = <<>> /\ remaining_steps = 0

\* the pre_model_hook node of the sub-agent
DelegatedPreModelHook ==
    /\ op \in {"init", "tool"}
    /\ PreModelHook

\* the agent node: the model's AI message, named for the agent, with a tool
\* call, or without one when it ends the run
SubAgentModelTurn ==
    /\ op = "pre_model_hook"
    /\ \E thought \in SubAgentThoughts,
          tool_calls \in { <<>>, <<ToolCall(10 * Len(messages), <<"tool">>, <<"z">>)>> } :
         messages' = Append(messages, AIMessage(agent_name, thought, tool_calls))
    /\ op' = "model"
    /\ UNCHANGED <<calls, agent_name, cleaned, extractVars, nodeVars, driverVars>>

\* the tools node: one Tool message for the call, under the tool's name or
\* under the agent's
SubAgentToolStep ==
    /\ op = "model"
    /\ messages[Len(messages)].tool_calls # <<>>
    /\ \E name \in {"tool", agent_name} :
         messages' = Append(messages,
                            ToolMessage(name, <<"o">>, messages[Len(messages)].tool_calls[1].id))
    /\ op' = "tool"
    /\ UNCHANGED <<calls, agent_name, cleaned, extractVars, nodeVars, driverVars>>

NextDelegated == DelegatedPreModelHook \/ SubAgentModelTurn \/ SubAgentToolStep

SpecDelegated == InitDelegated /\ [][NextDelegated]_vars

\* C22 as stated: during one delegated run every call of the reducer returns
\* the payload of the supervisor's delegation as the effective input,
\* whatever the sub-agent has appended to the log since
C22_AsStated ==
    op = "pre_model_hook" => Input = delegation[1].arguments

\* the messages of the view the last hook call returned
ViewMessages == [p \in 1..Len(View) |-> View[p].msg]

\* C23 as stated: in every view the reducer returns, each AI message with
\* tool calls is followed, before the next AI message of the view, by
\* exactly one Tool message for each of its tool_call_ids
C23_AsStated ==
    op = "pre_model_hook" =>
        \A i \in 1..Len(ViewMessages) :
            ViewMessages[i].role = "ai" =>
                \A k \in 1..Len(ViewMessages[i].tool_calls) :
                    LET ans == Answers(ViewMessages, i, ViewMessages[i].tool_calls[k].id) IN
                    /\ Cardinality(ans) = 1
                    /\ \A j \in ans : j < NextAI(ViewMessages, i)

(***************************************************************************)
(* The visual agent's hook against the reducer it calls, on the runs of    *)
(* SpecVisual.                                                             *)
(***************************************************************************)
\* a Tool message whose content holds the text "base64,"
CarriesBase64(msg) ==
    msg.role = "tool" /\ \E t \in 1..Len(msg.content) : msg.content[t] \in Base64Markers

\* elem is what the hook may put in the place of the view element original:
\* a Human message of its own making for a Tool message with "base64,"
\* (an image part, or the parse-failure text), the element itself otherwise
ReplacedInPlace(original, elem) ==
    IF CarriesBase64(original.msg)
    THEN /\ elem.src = 0
         /\ elem.msg.role = "human"
         /\ \/ HasImagePart(elem.msg)
            \/ Head(elem.msg.content) = "Image data received but could not be parsed: "
    ELSE elem = original

\* C24 as stated: the visual agent's hook returns the reducer's view for
\* "visual" with the same messages in the same order, the first System message
\* and the effective-input Human message included, only the Tool messages
\* with "base64," being replaced in place, and the reducer's input
C24_AsStated ==
    [][op' = "visual_hook" =>
        LET reduced == clean_agent_messages_hook_instance(messages, "visual")
            result == cleaned'[1]
        IN /\ result.input = reduced.input
           /\ Len(result.messages) = Len(reduced.messages)
           /\ \A p \in 1..Len(reduced.messages) :
                 ReplacedInPlace(reduced.messages[p], result.messages[p])]_vars

(***************************************************************************)
(* GlobalPlanner of agents/planner.py on the AgentState of agents/state.py *)
(* (query, current_plan, current_step_index, verification_status,          *)
(* retry_count, error_message, history).  agent_state is the state dict    *)
(* the planner is given; an index is Python's, from 0.                     *)
(***************************************************************************)
MaxPlannerCalls == 5    \* planner calls explored in one run

\* the names bound in the module agents/planner.py: its imports (lines 3-8)
\* and its class
PlannerModuleNames ==
    {"operator", "List", "Any", "Literal", "datetime",
     "AgentState", "PlanStep", "PlanStepStatus", "HistoryEntry", "GlobalPlanner"}

PlanStep(agent_to_call, status) == [agent_to_call |-> agent_to_call, status |-> status]

\* `word in query.lower()` for one of the words
Mentions(query, words) == \E t \in 1..Len(query) : query[t] \in words

\* _create_initial_dummy_plan(query)
create_initial_dummy_plan(query) ==
    LET first == <<PlanStep("web_search_agent", "PENDING")>>
        rest == <<PlanStep("summarizer_agent", "PENDING"),
                  PlanStep("final_answer_agent", "PENDING")>>
    IN IF Mentions(query, {"video", "youtube"})
       THEN first \o <<PlanStep("audio_agent", "PENDING")>> \o rest
       ELSE IF Mentions(query, {"code", "programming"})
       THEN first \o <<PlanStep("code_agent", "PENDING")>> \o rest
       ELSE first \o rest

\* the mutant of generate_or_replan: `retry_count <= max_retries`
generate_or_replan_one_more(state) ==
    IF Truthy(state.error_message) /\ state.current_plan # <<>> /\ state.retry_count <= 3
    THEN IF state.current_step_index < Len(state.current_plan)
         THEN [state EXCEPT
                 !.current_plan = [state.current_plan EXCEPT
                                      ![state.current_step_index + 1].status = "PENDING"],
                 !.error_message = None,
                 !.verification_status = None,
                 !.retry_count = state.retry_count + 1]
         ELSE [state EXCEPT
                 !.current_plan = create_initial_dummy_plan(state.query),
                 !.current_step_index = 0,
                 !.error_message = None,
                 !.verification_status = None,
                 !.retry_count = state.retry_count + 1]
    ELSE [state EXCEPT
            !.current_plan = create_initial_dummy_plan(state.query),
            !.current_step_index = 0,
            !.retry_count = 0,
            !.error_message = None,
            !.verification_status = None]

\* GlobalPlanner._generate_or_replan(state): the state dict after the call
\* (max_retries = 3, line 111)
generate_or_replan(state) ==
    IF Truthy(state.error_message) /\ state.current_plan # <<>> /\ state.retry_count < 3
    THEN \* scenario 1: a copy of the plan, the failed step pending again
         IF 0 <= state.current_step_index /\ state.current_step_index < Len(state.current_plan)
         THEN [state EXCEPT
                 !.current_plan = [state.current_plan EXCEPT
                                      ![state.current_step_index + 1].status = "PENDING"],
                 !.error_message = None,
                 !.verification_status = None,
                 !.retry_count = state.retry_count + 1]
         ELSE [state EXCEPT
                 !.current_plan = create_initial_dummy_plan(state.query),
                 !.current_step_index = 0,
                 !.error_message = None,
                 !.verification_status = None,
                 !.retry_count = state.retry_count + 1]
    ELSE \* scenario 2: a fresh plan
         [state EXCEPT
            !.current_plan = create_initial_dummy_plan(state.query),
            !.current_step_index = 0,
            !.retry_count = 0,
            !.error_message = None,
            !.verification_status = None]

\* the history entry of lines 85-99
PlannerHistoryEntry(state, updated_state, action, status) ==
    [node |-> "global_planner_node", action |-> action, status |-> status,
     input_retry_count |-> state.retry_count,
     new_retry_count |-> updated_state.retry_count,
     plan_snapshot |-> updated_state.current_plan]

\* GlobalPlanner.__call__(state): what it returns or raises, and `given`, the
\* dict it was given as the call leaves it.  state.copy() is a shallow copy:
\* the keys set on updated_state do not reach the given dict, the history
\* list is the same object in both.
GlobalPlanner_call(state) ==
    LET replans == state.current_plan = <<>> \/ state.verification_status = Some("failure")
        updated_state == IF replans THEN generate_or_replan(state) ELSE state
        action == IF ~replans THEN "No re-planning needed"
                  ELSE IF state.current_plan = <<>> THEN "Generated new plan"
                  ELSE "Re-planned due to failure"
        status == IF replans THEN "SUCCESS" ELSE "SKIPPED"
        entry == PlannerHistoryEntry(state, updated_state, action, status)
    IN IF "create_history_entry" \notin PlannerModuleNames
       THEN \* line 85: the name is looked up before the append is made
            [returned |-> None, raised |-> "NameError", given |-> state]
       ELSE [returned |-> Some([updated_state EXCEPT !.history = Append(state.history, entry)]),
             raised |-> "",
             given |-> [state EXCEPT !.history = Append(state.history, entry)]]

PlannerQueries == { <<"q">>, <<"a", "video">>, <<"code", "video">>, <<"programming">> }

InitPlanner ==
    /\ \E query \in PlannerQueries :
         agent_state = [query |-> query,
                        current_plan |-> <<>>,
                        current_step_index |-> 0,
                        verification_status |-> None,
                        retry_count |-> 0,
                        error_message |-> None,
                        history |-> <<>>]
    /\ returned = None
    /\ raised = ""
    /\ outcome = ""
    /\ graph_node = ""
    /\ op = "init"
    /\ messages = <<>>
    /\ calls = 0
    /\ IdleReduce
    /\ IdleExtract
    /\ IdleDriver

\* a step of the plan was run and verified by the rest of the workflow: the
\* fields of the state the planner reads are set; the index stays on the step
\* or moves to the next one (past the last step when the plan is done)
StepVerified ==
    /\ agent_state.current_plan # <<>>
    /\ \E index \in {agent_state.current_step_index, agent_state.current_step_index + 1}
                        \cap 0..Len(agent_state.current_plan),
          verification \in {None, Some("success"), Some("failure")},
          error \in {None, Some(<<>>), Some(<<"e">>)} :
         agent_state' = [agent_state EXCEPT
                            !.current_step_index = index,
                            !.verification_status = verification,
                            !.error_message = error,
                            !.current_plan =
                                IF verification = Some("failure") /\ index < Len(agent_state.current_plan)
                                THEN [agent_state.current_plan EXCEPT ![index + 1].status = "FAILED"]
                                ELSE agent_state.current_plan]
    /\ op' = "verified"
    /\ UNCHANGED <<messages, calls, returned, raised, outcome, graph_node,
                   reducerVars, extractVars, driverVars>>

\* a re-planning call: _generate_or_replan(state) changes the dict in place
GenerateOrReplan ==
    /\ calls < MaxPlannerCalls
    /\ agent_state' = generate_or_replan(agent_state)
    /\ calls' = calls + 1
    /\ op' = "generate_or_replan"
    /\ UNCHANGED <<messages, returned, raised, outcome, graph_node,
                   reducerVars, extractVars, driverVars>>

\* the planner node: GlobalPlanner()(state)
GlobalPlannerNode ==
    /\ calls < MaxPlannerCalls
    /\ LET result == GlobalPlanner_call(agent_state) IN
         /\ returned' = result.returned
         /\ raised' = result.raised
         /\ agent_state' = result.given
    /\ outcome' = ""
    /\ op' = "global_planner"
    /\ UNCHANGED <<messages, calls, graph_node, reducerVars, extractVars, driverVars>>

NextPlanner == StepVerified \/ GenerateOrReplan \/ GlobalPlannerNode

SpecPlanner == InitPlanner /\ [][NextPlanner]_vars

\* C25: retry bound of the planner.  Over the re-planning calls of a run that
\* starts with retry_count = 0, retry_count never exceeds 3; a call adds one
\* to it only when an error message and a plan exist and it is below 3, and
\* any other call builds a fresh plan with retry_count and
\* current_step_index back at 0.
C25_RetryBound ==
    /\ [](agent_state.retry_count <= 3)
    /\ [][op' = "generate_or_replan" =>
            IF /\ Truthy(agent_state.error_message)
               /\ agent_state.current_plan # <<>>
               /\ agent_state.retry_count < 3
            THEN agent_state'.retry_count = agent_state.retry_count + 1
            ELSE /\ agent_state'.retry_count = 0
                 /\ agent_state'.current_step_index = 0
                 /\ agent_state'.current_plan = create_initial_dummy_plan(agent_state.query)]_vars

\* the third retry of a step was just made: the step is pending again and
\* retry_count is at its bound
C25_Witness ==
    /\ op = "generate_or_replan"
    /\ agent_state.retry_count = 3
    /\ agent_state.current_step_index > 0
    /\ agent_state.current_plan[agent_state.current_step_index + 1].status = "PENDING"
    /\ agent_state.error_message = None

\* C26 as stated: GlobalPlanner.__call__ returns an updated state and leaves
\* the state it was given as it was, the history list and the plan included
C26_AsStated ==
    [][op' = "global_planner" =>
          /\ returned' # None
          /\ agent_state' = agent_state]_vars

(***************************************************************************)
(* The final answer over the orchestrator's turns, on the runs of          *)
(* SpecExtract.                                                            *)
(***************************************************************************)
\* the last message of the log is an AI message with the final-answer marker
LastHasAnswerMarker ==
    /\ messages # <<>>
    /\ messages[Len(messages)].role = "ai"
    /\ \E t \in 1..Len(messages[Len(messages)].content) :
          messages[Len(messages)].content[t] \in FinalAnswerMarkers

\* C27: final_answer is never lost once set.  Once the post-model hook has
\* extracted a final answer, no step sets final_answer back to None; the
\* hook's call after a turn without marker leaves it as it is, and it changes
\* only by the hook's call after a turn with a marker, to the text extracted
\* from that turn.
C27_FinalAnswerKept ==
    [][final_answer # None =>
          /\ final_answer' # None
          /\ (op' = "extract" /\ ~LastHasAnswerMarker) =>
                (update' = None /\ final_answer' = final_answer)
          /\ final_answer' # final_answer =>
                /\ op' = "extract"
                /\ LastHasAnswerMarker
                /\ \E k \in 1..Len(messages[Len(messages)].content) :
                      /\ messages[Len(messages)].content[k] \in FinalAnswerMarkers
                      /\ final_answer' = Some(Strip(After(messages[Len(messages)].content, k), Whitespace))]_vars

\* an answer was extracted, the orchestrator spoke again without the marker,
\* the hook ran on that turn, and the answer is still there
C27_Witness ==
    /\ op = "extract"
    /\ Len(messages) >= 2
    /\ ~LastHasAnswerMarker
    /\ update = None
    /\ final_answer # None

(***************************************************************************)
(* The planner's conditional edge against the values the planner gives     *)
(* active_agent_name, on the runs of SpecGraph.                            *)
(***************************************************************************)
\* C28 as stated: for every value PlannerAgent.__call__ gives
\* active_agent_name, in the state it returns or in the new_state of the path
\* it took, route_from_planner returns one of the five targets of the
\* conditional edge's mapping
C28_AsStated ==
    op = "planner_agent" =>
        /\ returned # None => route_from_planner(returned[1]) \in DOMAIN PathMap
        /\ raised # "" =>
              \A next_agent \in PlannerChoices :
                  \A new_state \in PlannerAssignments(agent_state, outcome, next_agent) :
                      route_from_planner(new_state) \in DOMAIN PathMap

(***************************************************************************)
(* The delegation tools of tools/orchestrator_tools.py against the names   *)
(* the sub-agents are created with, on the runs of SpecDriver.             *)
(***************************************************************************)
\* the delegate_to_* tools declared for the orchestrator
DelegationTools ==
    { <<DelegationPrefix, "generic_agent">>,
      <<DelegationPrefix, "researcher_agent">>,
      <<DelegationPrefix, "audio_agent">>,
      <<DelegationPrefix, "visual_agent">>,
      <<DelegationPrefix, "code_agent">> }

\* C29 as stated: the suffix of every delegation tool is the name of a
\* sub-agent registered with the supervisor, so the delegation in use always
\* targets an existing agent
C29_AsStated ==
    \A tool \in DelegationTools :
        (delegation # None /\ delegation[1].target_agent = tool[2]) =>
            tool[2] \in RegisteredAgents

(***************************************************************************)
(* The marker the extractor takes, on the runs of SpecExtract.             *)
(***************************************************************************)
\* the content of the last message of the log
LastContent == messages[Len(messages)].content

\* the positions of the final-answer markers in the last message
MarkerPositions == { t \in 1..Len(LastContent) : LastContent[t] \in FinalAnswerMarkers }

\* C30: the marker chosen by the extractor.  When the last AI message holds
\* the marker more than once, the hook returns the trimmed text after the
\* first occurrence, which still holds the later occurrences; when only
\* whitespace follows the marker, the hook returns the empty string as the
\* final answer, not an update without answer.
C30_FirstMarker ==
    (op = "extract" /\ LastHasAnswerMarker) =>
        LET first == CHOOSE t \in MarkerPositions : \A u \in MarkerPositions : t <= u IN
        /\ update # None
        /\ IsTrimOf(update[1], After(LastContent, first))
        /\ Cardinality({ t \in 1..Len(update[1]) : update[1][t] \in FinalAnswerMarkers })
              = Cardinality(MarkerPositions) - 1
        /\ (\A t \in (first + 1)..Len(LastContent) : LastContent[t] \in Whitespace) =>
              (update = Some(<<>>) /\ final_answer = Some(<<>>))

\* the hook ran on an AI message with two markers and text after each, and
\* the answer it returned holds the second marker
C30_Witness ==
    /\ op = "extract"
    /\ LastHasAnswerMarker
    /\ Cardinality(MarkerPositions) = 2
    /\ update # None
    /\ \E t \in 1..Len(update[1]) : update[1][t] \in FinalAnswerMarkers
    /\ final_answer = update

====
